---- MODULE Spec2Model ----
(***************************************************************************)
(* A model of the persistent rope of src/src/lib.rs: the node              *)
(* representation (Flat / Concat), the cached metadata, concat, slice,     *)
(* indexing, marker queries, the bulk loader and the Values iterator.      *)
(* Nodes are immutable and reference counted in the source; the model      *)
(* represents a Link<T, M> by the value of the node it points to.          *)
(***************************************************************************)
EXTENDS Integers, Sequences, FiniteSets, TLC

(* ---------------------------- bounds ----------------------------------- *)

\* longest data vector of a chunk handed to from_chunk / the loader
MaxChunk == 2
\* longest rope an operation is allowed to build
MaxLen == 3
\* deepest rope an operation is allowed to build
MaxDepth == 2
\* most chunks one from_chunks call is given
MaxChunks == 3
\* most calls of next() made on an iterator after it reported exhaustion
MaxExhausted == 2

\* the element type T and the marker type M
Elems == {"a", "b"}
MarkerSet == {"X"}

(* ----------------------------- values ---------------------------------- *)

\* Option<usize>
None == <<>>
Some(i) == <<i>>

\* a panic!() unwinding out of a call
Panic(msg) == [kind |-> "Panic", msg |-> msg]
IsPanic(v) == v.kind = "Panic"

\* &T handed back by Index::index
Ref(x) == [kind |-> "Ref", value |-> x]

\* Option<usize> handed back by index_for_nth_marker
Found(o) == [kind |-> "Option", value |-> o]

\* a call that returned normally
Ok == [kind |-> "Ok"]

\* Err(e) handed back by from_chunks
Err == [kind |-> "Err"]

\* no rope has been built, or the client dropped the one it had
NoRope == [kind |-> "NoRope"]

\* Option<&T> handed back by Values::next
Item(o) == [kind |-> "Item", value |-> o]

\* the client holds no iterator
NoValues == [kind |-> "NoValues"]

Max(a, b) == IF a >= b THEN a ELSE b

\* Node::Flat { data, markers }
Flat(data, markers) == [kind |-> "Flat", data |-> data, markers |-> markers]

\* HashMap::new()
EmptyMap == [m \in {} |-> 0]

\* the chunks a client can build with with_capacity / push /
\* extend_from_slice / mark_at: every marked offset is inside the data and
\* every marker that has an entry has at least one offset
SeqsUpTo(n) == UNION {[1..k -> Elems] : k \in 0..n}
MarkingsOf(n) == UNION {[D -> (SUBSET (0..(n - 1))) \ {{}}] : D \in SUBSET MarkerSet}
ChunksOfLen(n) == {[data |-> d, markers |-> mk] : d \in [1..n -> Elems], mk \in MarkingsOf(n)}
Chunks == UNION {ChunksOfLen(n) : n \in 0..MaxChunk}

(* ------------------------- Node queries -------------------------------- *)

Node_depth(n) == IF n.kind = "Concat" THEN n.depth ELSE 0

Node_len(n) == IF n.kind = "Concat" THEN n.len ELSE Len(n.data)

Node_marker_counts(n) ==
    IF n.kind = "Concat"
      THEN [m \in DOMAIN n.markers |-> n.markers[m][2]]
      ELSE [m \in {k \in DOMAIN n.markers : n.markers[k] # {}} |->
                Cardinality(n.markers[m])]

(* ---------------------------- concat ----------------------------------- *)

\* concat with the two children stored the wrong way round
Node_concat_Swapped(left, right) ==
    LET lc == Node_marker_counts(left)
        rc == Node_marker_counts(right)
        seeded(m) == IF m \in DOMAIN lc THEN <<lc[m], lc[m]>> ELSE <<0, 0>>
        counts == [m \in (DOMAIN lc) \cup (DOMAIN rc) |->
                     IF m \in DOMAIN rc
                       THEN <<seeded(m)[1], seeded(m)[2] + rc[m]>>
                       ELSE seeded(m)]
    IN  [kind     |-> "Concat",
         depth    |-> Max(Node_depth(left), Node_depth(right)) + 1,
         left_len |-> Node_len(left),
         markers  |-> counts,
         len      |-> Node_len(left) + Node_len(right),
         left     |-> right,
         right    |-> left]

\* concat whose merge of the right counts overwrites the total instead of
\* adding to it
Node_concat_TotalOverwritten(left, right) ==
    LET lc == Node_marker_counts(left)
        rc == Node_marker_counts(right)
        seeded(m) == IF m \in DOMAIN lc THEN <<lc[m], lc[m]>> ELSE <<0, 0>>
        counts == [m \in (DOMAIN lc) \cup (DOMAIN rc) |->
                     IF m \in DOMAIN rc
                       THEN <<seeded(m)[1], rc[m]>>
                       ELSE seeded(m)]
    IN  [kind     |-> "Concat",
         depth    |-> Max(Node_depth(left), Node_depth(right)) + 1,
         left_len |-> Node_len(left),
         markers  |-> counts,
         len      |-> Node_len(left) + Node_len(right),
         left     |-> left,
         right    |-> right]

Node_concat(left, right) ==
    LET lc == Node_marker_counts(left)
        rc == Node_marker_counts(right)
        seeded(m) == IF m \in DOMAIN lc THEN <<lc[m], lc[m]>> ELSE <<0, 0>>
        counts == [m \in (DOMAIN lc) \cup (DOMAIN rc) |->
                     IF m \in DOMAIN rc
                       THEN <<seeded(m)[1], seeded(m)[2] + rc[m]>>
                       ELSE seeded(m)]
    IN  [kind     |-> "Concat",
         depth    |-> Max(Node_depth(left), Node_depth(right)) + 1,
         left_len |-> Node_len(left),
         markers  |-> counts,
         len      |-> Node_len(left) + Node_len(right),
         left     |-> left,
         right    |-> right]

(* ----------------------------- slice ----------------------------------- *)

\* the Flat arm: &data[start..end] panics when start > end or end > len;
\* the kept marker offsets are collected as they are
SliceFlat(n, start, end) ==
    IF start > end \/ end > Len(n.data)
      THEN Panic("slice index out of range")
      ELSE LET kept(m) == {i \in n.markers[m] : i >= start /\ i < end}
           IN  Flat(SubSeq(n.data, start + 1, end),
                    [m \in {k \in DOMAIN n.markers : kept(k) # {}} |-> kept(m)])

\* concat of two results, unwinding when either recursive call panicked
ConcatSubs(left_sub, right_sub) ==
    IF IsPanic(left_sub) THEN left_sub
    ELSE IF IsPanic(right_sub) THEN right_sub
    ELSE Node_concat(left_sub, right_sub)

RECURSIVE Node_slice(_, _, _)
Node_slice(n, start, end) ==
    IF n.kind = "Flat"
      THEN SliceFlat(n, start, end)
      ELSE LET do_left  == start < n.left_len
               do_right == end >= n.left_len
           IN  IF do_left /\ do_right
                 THEN ConcatSubs(Node_slice(n.left, start, n.left_len),
                                 Node_slice(n.right, 0, end - n.left_len))
               ELSE IF do_left
                 THEN Node_slice(n.left, start, end)
               ELSE IF do_right
                 THEN Node_slice(n.right, 0, end - n.left_len)
               ELSE Panic("should not have gotten here!")

\* the range check with start > end in place of start >= end
Rope_slice_EmptyAllowed(r, start, end) ==
    IF start > end \/ end > Node_len(r)
      THEN Panic("bad slice indices")
      ELSE Node_slice(r, start, end)

Rope_slice(r, start, end) ==
    IF start >= end \/ end > Node_len(r)
      THEN Panic("bad slice indices")
      ELSE Node_slice(r, start, end)

(* ------------------------------ at ------------------------------------- *)

RECURSIVE Node_at(_, _)
\* at with index <= left_len routed to the left child
Node_at_OffByOne(n, index) ==
    IF index >= Node_len(n)
      THEN Panic("index exceeds bounds")
    ELSE IF n.kind = "Flat"
      THEN Ref(n.data[index + 1])
    ELSE IF index <= n.left_len
      THEN Node_at(n.left, index)
      ELSE Node_at(n.right, index - n.left_len)

Node_at(n, index) ==
    IF index >= Node_len(n)
      THEN Panic("index exceeds bounds")
    ELSE IF n.kind = "Flat"
      THEN Ref(n.data[index + 1])
    ELSE IF index < n.left_len
      THEN Node_at(n.left, index)
      ELSE Node_at(n.right, index - n.left_len)

(* ------------------------- nth marker ---------------------------------- *)

\* BTreeSet iter().nth(n): the n-th smallest offset, if there is one
NthOf(S, n) ==
    IF n < Cardinality(S)
      THEN Some(CHOOSE x \in S : Cardinality({y \in S : y < x}) = n)
      ELSE None

RECURSIVE Node_index_for_nth_marker(_, _, _)
Node_index_for_nth_marker(n, marker, k) ==
    IF marker \notin DOMAIN n.markers
      THEN None
    ELSE IF n.kind = "Flat"
      THEN NthOf(n.markers[marker], k)
    ELSE LET left_count == n.markers[marker][1]
             count      == n.markers[marker][2]
         IN  IF k < left_count
               THEN Node_index_for_nth_marker(n.left, marker, k)
             ELSE IF k < count
               THEN LET r == Node_index_for_nth_marker(n.right, marker, k - left_count)
                    IN  IF r = None THEN None ELSE Some(n.left_len + r[1])
             ELSE None

(* --------------------------- Rope API ---------------------------------- *)

Rope_from_chunk(chunk) == Flat(chunk.data, chunk.markers)

Rope_new(data) == Flat(data, EmptyMap)

Rope_marker_count(r, marker) ==
    IF marker \in DOMAIN Node_marker_counts(r)
      THEN Node_marker_counts(r)[marker]
      ELSE 0

Rope_concat(left, right) == Node_concat(left, right)

(* -------------------------- the iterator ------------------------------- *)

\* Values { stack, flat_iter }: flat_iter is the rest of the current leaf
RECURSIVE DescendLeft(_, _)
DescendLeft(ptr, stack) ==
    IF ptr.kind = "Flat"
      THEN [stack |-> stack, flat_iter |-> ptr.data]
      ELSE DescendLeft(ptr.left, Append(stack, ptr))

Values_new(root) == DescendLeft(root, <<>>)

\* next(): the item returned (None when exhausted) and the iterator after
RECURSIVE Values_next(_)
\* next() that loads the next leaf and hands back its first element
\* without the closing recursive call
Values_next_NoRecurse(v) ==
    IF v.flat_iter # <<>>
      THEN [item |-> Some(Head(v.flat_iter)),
            iter |-> [stack |-> v.stack, flat_iter |-> Tail(v.flat_iter)]]
    ELSE IF v.stack = <<>>
      THEN [item |-> None, iter |-> v]
    ELSE LET top  == v.stack[Len(v.stack)]
             rest == SubSeq(v.stack, 1, Len(v.stack) - 1)
             leaf == DescendLeft(top.right, rest)
         IN  IF leaf.flat_iter = <<>>
               THEN [item |-> None, iter |-> leaf]
               ELSE [item |-> Some(Head(leaf.flat_iter)),
                     iter |-> [stack |-> leaf.stack,
                               flat_iter |-> Tail(leaf.flat_iter)]]

Values_next(v) ==
    IF v.flat_iter # <<>>
      THEN [item |-> Some(Head(v.flat_iter)),
            iter |-> [stack |-> v.stack, flat_iter |-> Tail(v.flat_iter)]]
    ELSE IF v.stack = <<>>
      THEN [item |-> None, iter |-> v]
    ELSE LET top  == v.stack[Len(v.stack)]
             rest == SubSeq(v.stack, 1, Len(v.stack) - 1)
         IN  Values_next(DescendLeft(top.right, rest))

\* rope.iter().cloned().collect()
RECURSIVE Drain(_, _)
Drain(v, acc) ==
    LET nx == Values_next(v)
    IN  IF nx.item = None THEN acc ELSE Drain(nx.iter, Append(acc, nx.item[1]))

Collect(r) == Drain(Values_new(r), <<>>)

(* -------------------------- bulk loader -------------------------------- *)

\* the while loop of from_chunks: merge the two most recent ropes for as
\* long as they have the same depth
RECURSIVE MergeEqualDepth(_)
MergeEqualDepth(st) ==
    IF Len(st) > 1 /\ Node_depth(st[Len(st)]) = Node_depth(st[Len(st) - 1])
      THEN MergeEqualDepth(Append(SubSeq(st, 1, Len(st) - 2),
                                  Rope_concat(st[Len(st) - 1], st[Len(st)])))
      ELSE st

\* stack.into_iter().rev().fold(init, |right, left| Rope::concat(&left, &right))
RECURSIVE FoldRev(_, _)
\* the fold with the closure's operands handed to concat the wrong way round
FoldRev_Swapped(st, right) ==
    IF st = <<>>
      THEN right
      ELSE FoldRev(SubSeq(st, 1, Len(st) - 1), Rope_concat(right, st[Len(st)]))

FoldRev(st, right) ==
    IF st = <<>>
      THEN right
      ELSE FoldRev(SubSeq(st, 1, Len(st) - 1), Rope_concat(st[Len(st)], right))

\* what follows the 'outer loop: pop the last rope (unwrap panics on an
\* empty stack) and fold the rest onto it
AssembleStack(st) ==
    IF st = <<>>
      THEN Panic("called Option::unwrap() on a None value")
      ELSE FoldRev(SubSeq(st, 1, Len(st) - 1), st[Len(st)])

(* --------------------------- the state --------------------------------- *)

VARIABLES
    rope,     \* the rope the client holds (NoRope before the first one)
    op,       \* the last operation called, with its arguments
    out,      \* what that call handed back
    stack,    \* from_chunks: the stack of pending ropes
    loaded,   \* from_chunks: the chunks the loader closure has yielded
    pc,       \* "idle", "loading" inside from_chunks, or "iterating"
              \* while the client holds a Values borrowed from the rope
    values,   \* the Values iterator the client holds (NoValues if none)
    yielded,  \* the elements next() has handed back so far
    exhausted \* how many times next() has handed back None

vars == <<rope, op, out, stack, loaded, pc, values, yielded, exhausted>>

iter_vars == <<values, yielded, exhausted>>

HasRope == rope.kind # "NoRope"

RECURSIVE SumLen(_)
SumLen(cs) == IF cs = <<>> THEN 0 ELSE Len(Head(cs).data) + SumLen(Tail(cs))

Init ==
    /\ rope = NoRope
    /\ op = [name |-> "init"]
    /\ out = Ok
    /\ stack = <<>>
    /\ loaded = <<>>
    /\ pc = "idle"
    /\ values = NoValues
    /\ yielded = <<>>
    /\ exhausted = 0

\* Rope::new(&data)
New(data) ==
    /\ pc = "idle"
    /\ rope' = Rope_new(data)
    /\ op' = [name |-> "new", data |-> data]
    /\ out' = Ok
    /\ UNCHANGED <<stack, loaded, pc>>
    /\ UNCHANGED iter_vars

\* Rope::from_chunk(chunk)
FromChunk(chunk) ==
    /\ pc = "idle"
    /\ rope' = Rope_from_chunk(chunk)
    /\ op' = [name |-> "from_chunk", chunk |-> chunk]
    /\ out' = Ok
    /\ UNCHANGED <<stack, loaded, pc>>
    /\ UNCHANGED iter_vars

\* the ropes a client can hand to concat: the rope it holds, or a leaf it
\* has just made from a chunk
Leaves == {Rope_from_chunk(c) : c \in Chunks}
Operands == Leaves \cup {rope}

\* Rope::concat(&left, &right)
Concat(left, right) ==
    /\ pc = "idle"
    /\ HasRope
    /\ left = rope \/ right = rope
    /\ Node_len(left) + Node_len(right) <= MaxLen
    /\ Max(Node_depth(left), Node_depth(right)) < MaxDepth
    /\ rope' = Rope_concat(left, right)
    /\ op' = [name |-> "concat", left |-> left, right |-> right]
    /\ out' = Ok
    /\ UNCHANGED <<stack, loaded, pc>>
    /\ UNCHANGED iter_vars

\* rope.slice(start, end): a panic leaves the client with the rope it had
Slice(start, end) ==
    /\ pc = "idle"
    /\ HasRope
    /\ LET res == Rope_slice(rope, start, end)
       IN  /\ rope' = IF IsPanic(res) THEN rope ELSE res
           /\ out' = IF IsPanic(res) THEN res ELSE Ok
    /\ op' = [name |-> "slice", src |-> rope, start |-> start, end |-> end]
    /\ UNCHANGED <<stack, loaded, pc>>
    /\ UNCHANGED iter_vars

\* rope[index]
Index(index) ==
    /\ pc = "idle"
    /\ HasRope
    /\ out' = Node_at(rope, index)
    /\ op' = [name |-> "index", index |-> index]
    /\ UNCHANGED <<rope, stack, loaded, pc>>
    /\ UNCHANGED iter_vars

\* rope.index_for_nth_marker(marker, n)
NthMarker(marker, n) ==
    /\ pc = "idle"
    /\ HasRope
    /\ out' = Found(Node_index_for_nth_marker(rope, marker, n))
    /\ op' = [name |-> "index_for_nth_marker", marker |-> marker, n |-> n]
    /\ UNCHANGED <<rope, stack, loaded, pc>>
    /\ UNCHANGED iter_vars

\* Rope::from_chunks(loader) is entered: let mut stack = Vec::new()
LoaderStart ==
    /\ pc = "idle"
    /\ pc' = "loading"
    /\ rope' = NoRope
    /\ stack' = <<>>
    /\ loaded' = <<>>
    /\ op' = [name |-> "loading"]
    /\ out' = Ok
    /\ UNCHANGED iter_vars

\* loader() returns Ok(Some(chunk))
LoaderChunk(chunk) ==
    /\ pc = "loading"
    /\ Len(loaded) < MaxChunks
    /\ SumLen(loaded) + Len(chunk.data) <= MaxLen
    /\ stack' = MergeEqualDepth(Append(stack, Rope_from_chunk(chunk)))
    /\ loaded' = Append(loaded, chunk)
    /\ UNCHANGED <<rope, op, out, pc>>
    /\ UNCHANGED iter_vars

\* loader() returns Ok(None)
LoaderEnd ==
    /\ pc = "loading"
    /\ LET res == AssembleStack(stack)
       IN  /\ rope' = IF IsPanic(res) THEN rope ELSE res
           /\ out' = IF IsPanic(res) THEN res ELSE Ok
    /\ op' = [name |-> "from_chunks", chunks |-> loaded, signal |-> "None"]
    /\ stack' = <<>>
    /\ loaded' = <<>>
    /\ pc' = "idle"
    /\ UNCHANGED iter_vars

\* loader() returns Err(e)
LoaderErr ==
    /\ pc = "loading"
    /\ out' = Err
    /\ op' = [name |-> "from_chunks", chunks |-> loaded, signal |-> "Err"]
    /\ stack' = <<>>
    /\ loaded' = <<>>
    /\ pc' = "idle"
    /\ UNCHANGED rope
    /\ UNCHANGED iter_vars

\* rope.iter(): the iterator borrows the rope, which the client can neither
\* drop nor replace until it lets the iterator go
Iter ==
    /\ pc = "idle"
    /\ HasRope
    /\ values' = Values_new(rope)
    /\ yielded' = <<>>
    /\ exhausted' = 0
    /\ pc' = "iterating"
    /\ op' = [name |-> "iter"]
    /\ out' = Ok
    /\ UNCHANGED <<rope, stack, loaded>>

\* values.next()
IterNext ==
    /\ pc = "iterating"
    /\ exhausted < MaxExhausted
    /\ LET nx == Values_next(values)
       IN  /\ values' = nx.iter
           /\ out' = Item(nx.item)
           /\ yielded' = IF nx.item = None THEN yielded ELSE Append(yielded, nx.item[1])
           /\ exhausted' = IF nx.item = None THEN exhausted + 1 ELSE exhausted
    /\ op' = [name |-> "next"]
    /\ UNCHANGED <<rope, stack, loaded, pc>>

\* the iterator goes out of scope
IterDrop ==
    /\ pc = "iterating"
    /\ values' = NoValues
    /\ yielded' = <<>>
    /\ exhausted' = 0
    /\ pc' = "idle"
    /\ op' = [name |-> "drop"]
    /\ out' = Ok
    /\ UNCHANGED <<rope, stack, loaded>>

Next ==
    \/ \E data \in SeqsUpTo(MaxChunk) : New(data)
    \/ \E chunk \in Chunks : FromChunk(chunk)
    \/ \E left \in Operands, right \in Operands : Concat(left, right)
    \/ \E start \in 0..MaxLen, end \in 0..(MaxLen + 1) : Slice(start, end)
    \/ \E index \in 0..MaxLen : Index(index)
    \/ \E marker \in MarkerSet, n \in 0..MaxLen : NthMarker(marker, n)
    \/ LoaderStart
    \/ \E chunk \in Chunks : LoaderChunk(chunk)
    \/ LoaderEnd
    \/ LoaderErr
    \/ Iter
    \/ IterNext
    \/ IterDrop

Spec == Init /\ [][Next]_vars

(* ------------------------ notions of the claims ------------------------ *)

\* the last call was rope.slice(start, end) with 0 <= start < end <= len()
SliceInRange ==
    /\ op.name = "slice"
    /\ op.start < op.end
    /\ op.end <= Node_len(op.src)

\* the positions of the sequence a rope represents that carry marker m:
\* a leaf's offsets, a right child's positions moved up by the left length
RECURSIVE MarkedPositions(_, _)
MarkedPositions(n, m) ==
    IF n.kind = "Flat"
      THEN IF m \in DOMAIN n.markers THEN n.markers[m] ELSE {}
      ELSE MarkedPositions(n.left, m) \cup
           {Node_len(n.left) + p : p \in MarkedPositions(n.right, m)}

(* ------------------------------ C1 ------------------------------------- *)

\* C1: after r.slice(start, end) with 0 <= start < end <= r.len() the new
\* rope has length end - start and its k-th element is r[start + k], for
\* every 0 <= k < end - start, also when the range lies wholly in the right
\* child of an internal node.
C1_SliceLenAndElements ==
    SliceInRange =>
        /\ out = Ok
        /\ Node_len(rope) = op.end - op.start
        /\ \A k \in 0..(op.end - op.start - 1) :
               Node_at(rope, k) = Node_at(op.src, op.start + k)

(* ------------------------------ C2 ------------------------------------- *)

\* C2: concat(a, b).len() == a.len() + b.len(), and concat(a, b).iter()
\* yields a's elements in order followed by b's elements in order; a and b
\* may be empty and may be the same rope.
C2_ConcatLenAndOrder ==
    op.name = "concat" =>
        /\ Node_len(rope) = Node_len(op.left) + Node_len(op.right)
        /\ Collect(rope) = Collect(op.left) \o Collect(op.right)

\* concat(a, a) of a non-empty internal node a that has an empty leaf
C2_Witness ==
    /\ op.name = "concat"
    /\ op.left = op.right
    /\ op.left.kind = "Concat"
    /\ Node_len(op.left) > 0
    /\ \E c \in {op.left.left, op.left.right} : c.kind = "Flat" /\ c.data = <<>>
    /\ Collect(rope) = Collect(op.left) \o Collect(op.left)

(* ------------------------------ C4 ------------------------------------- *)

\* C4: r[i] is the i-th element (0-based) of what r.iter() yields when
\* i < r.len(); when i >= r.len() the index operation panics and hands
\* back no element.
C4_IndexIsIthOfIter ==
    op.name = "index" =>
        IF op.index < Node_len(rope)
          THEN out = Ref(Collect(rope)[op.index + 1])
          ELSE IsPanic(out)

\* an index routed to the right child of the root as index - left_len,
\* where index and index - left_len name different elements
C4_Witness ==
    /\ op.name = "index"
    /\ rope.kind = "Concat"
    /\ rope.left_len > 0
    /\ op.index >= rope.left_len
    /\ op.index < Node_len(rope)
    /\ out.kind = "Ref"
    /\ out = Node_at(rope.right, op.index - rope.left_len)
    /\ out # Node_at(rope, op.index - rope.left_len)

(* ------------------------------ C5 ------------------------------------- *)

\* C5: slice(start, end) panics with the range error, giving no rope and
\* leaving r as it was, whenever start >= end or end > r.len(); whenever
\* 0 <= start < end <= r.len() it returns a rope: the recursion reaches
\* neither "should not have gotten here!" nor an out-of-range leaf access.
C5_SliceRangeError ==
    op.name = "slice" =>
        IF op.start >= op.end \/ op.end > Node_len(op.src)
          THEN out = Panic("bad slice indices") /\ rope = op.src
          ELSE out = Ok /\ rope.kind \in {"Flat", "Concat"}

\* a slice of an internal node that ends exactly at its split point, so
\* that the recursion takes the right child with the empty range [0, 0)
C5_Witness ==
    /\ SliceInRange
    /\ op.src.kind = "Concat"
    /\ op.src.depth = 2
    /\ op.start < op.src.left_len
    /\ op.end = op.src.left_len
    /\ out = Ok

(* ------------------------------ C3 ------------------------------------- *)

\* C3: split/rejoin identity: for every split point i of a rope r,
\* concat(r.slice(0, i), r.slice(i, r.len())) iterates to the element
\* sequence of r.  Stated for the split points 1 <= i < r.len(), where both
\* slices are in range; at i = 0 the call r.slice(0, 0) is refused by the
\* range check of Rope::slice.
C3_SplitRejoin ==
    HasRope =>
        \A i \in 1..(Node_len(rope) - 1) :
            LET head == Rope_slice(rope, 0, i)
                tail == Rope_slice(rope, i, Node_len(rope))
            IN  /\ ~IsPanic(head)
                /\ ~IsPanic(tail)
                /\ Collect(Rope_concat(head, tail)) = Collect(rope)

(* ------------------------------ C6 ------------------------------------- *)

\* C6: r.slice(start, end).marker_count(m) is the number of positions p
\* with start <= p < end that are marked with m in r.
C6_SliceMarkerCount ==
    SliceInRange /\ out = Ok =>
        \A m \in MarkerSet :
            Rope_marker_count(rope, m) =
                Cardinality({p \in MarkedPositions(op.src, m) :
                                 op.start <= p /\ p < op.end})

(* ------------------------------ C7 ------------------------------------- *)

\* C7: in every rope index_for_nth_marker(m, n) returns a position below
\* r.len() for every n < r.marker_count(m), these positions are strictly
\* increasing in n, and it returns None for every n >= r.marker_count(m).
C7_NthMarkerMonotone ==
    HasRope =>
        \A m \in MarkerSet : \A n \in 0..(MaxLen + 1) :
            LET at_n == Node_index_for_nth_marker(rope, m, n)
                succ == Node_index_for_nth_marker(rope, m, n + 1)
            IN  IF n < Rope_marker_count(rope, m)
                  THEN /\ at_n # None
                       /\ at_n[1] < Node_len(rope)
                       /\ (n + 1 < Rope_marker_count(rope, m) =>
                               succ # None /\ at_n[1] < succ[1])
                  ELSE at_n = None

(* ------------------------------ C8 ------------------------------------- *)

\* C8: slice re-offsets markers: when the positions of m in r that fall in
\* [start, end) are p_0 < p_1 < ... < p_(k-1), then
\* r.slice(start, end).index_for_nth_marker(m, j) == p_j - start for every
\* j < k; a sliced leaf is a leaf whose offsets of m are exactly
\* { o - start : o marked, start <= o < end }.
C8_SliceReoffsetsMarkers ==
    SliceInRange /\ out = Ok =>
        \A m \in MarkerSet :
            LET inside == {p \in MarkedPositions(op.src, m) :
                               op.start <= p /\ p < op.end}
            IN  /\ \A j \in 0..(Cardinality(inside) - 1) :
                       Node_index_for_nth_marker(rope, m, j) =
                           Some(NthOf(inside, j)[1] - op.start)
                /\ op.src.kind = "Flat" =>
                       /\ rope.kind = "Flat"
                       /\ MarkedPositions(rope, m) = {o - op.start : o \in inside}

(* ------------------------------ C9 ------------------------------------- *)

\* the data of the chunks, one after the other in yield order
RECURSIVE ChunkData(_)
ChunkData(cs) == IF cs = <<>> THEN <<>> ELSE Head(cs).data \o ChunkData(Tail(cs))

\* the number of offsets marked m, summed over the chunks
RECURSIVE ChunkMarked(_, _)
ChunkMarked(cs, m) ==
    IF cs = <<>>
      THEN 0
      ELSE (IF m \in DOMAIN Head(cs).markers
              THEN Cardinality(Head(cs).markers[m])
              ELSE 0) + ChunkMarked(Tail(cs), m)

\* C9: from_chunks on a non-empty stream of chunks ended by Ok(None)
\* returns a rope that iterates to the chunks' data in yield order and
\* whose marker_count(m) is the sum of the chunks' numbers of offsets
\* marked m.
C9_FromChunks ==
    (op.name = "from_chunks" /\ op.signal = "None" /\ op.chunks # <<>>) =>
        /\ out = Ok
        /\ HasRope
        /\ Collect(rope) = ChunkData(op.chunks)
        /\ \A m \in MarkerSet :
               Rope_marker_count(rope, m) = ChunkMarked(op.chunks, m)

\* three chunks, the middle one empty, the others marked: the first two are
\* merged on arrival and the third is folded on at the end
C9_Witness ==
    /\ op.name = "from_chunks"
    /\ op.signal = "None"
    /\ Len(op.chunks) = 3
    /\ op.chunks[2].data = <<>>
    /\ op.chunks[1].data # op.chunks[3].data
    /\ \E m \in MarkerSet : m \in DOMAIN op.chunks[1].markers /\ m \in DOMAIN op.chunks[3].markers
    /\ out = Ok
    /\ Node_depth(rope) = 2

(* ------------------------------ C10 ------------------------------------ *)

\* every internal node of n caches its children's len, depth and counts
RECURSIVE CacheConsistent(_)
CacheConsistent(n) ==
    n.kind = "Concat" =>
        /\ n.len = Node_len(n.left) + Node_len(n.right)
        /\ n.left_len = Node_len(n.left)
        /\ n.depth = Max(Node_depth(n.left), Node_depth(n.right)) + 1
        /\ \A m \in DOMAIN n.markers :
               /\ n.markers[m][1] = Rope_marker_count(n.left, m)
               /\ n.markers[m][2] = n.markers[m][1] + Rope_marker_count(n.right, m)
        /\ CacheConsistent(n.left)
        /\ CacheConsistent(n.right)

\* C10: in every rope built by leaf construction, concat, slice and bulk
\* loading every internal node has len == left.len() + right.len(),
\* left_len == left.len(), depth == max(left.depth(), right.depth()) + 1,
\* and for every marker m of its summary left_count == left.marker_count(m)
\* and total_count == left_count + right.marker_count(m).
C10_CachedMetadata ==
    /\ HasRope => CacheConsistent(rope)
    /\ \A i \in 1..Len(stack) : CacheConsistent(stack[i])

\* a slice that straddles the root of a depth-2 rope and keeps marked
\* positions on both sides of the new root
C10_Witness ==
    /\ SliceInRange
    /\ out = Ok
    /\ op.src.kind = "Concat"
    /\ op.src.depth = 2
    /\ rope.kind = "Concat"
    /\ rope # op.src
    /\ \E m \in DOMAIN rope.markers :
           rope.markers[m][1] > 0 /\ rope.markers[m][2] > rope.markers[m][1]

(* ------------------------------ C11 ------------------------------------ *)

\* no leaf of n has an empty data vector
RECURSIVE AllLeavesNonEmpty(_)
AllLeavesNonEmpty(n) ==
    IF n.kind = "Flat"
      THEN n.data # <<>>
      ELSE AllLeavesNonEmpty(n.left) /\ AllLeavesNonEmpty(n.right)

\* what Node::slice hands back when it builds a new internal node at n
StraddleResult(n, start, end) ==
    ConcatSubs(Node_slice(n.left, start, n.left_len),
               Node_slice(n.right, 0, end - n.left_len))

\* C11: when slice(start, end) reaches an internal node with
\* end <= left_len (end == left_len included) it hands back the left
\* child's slice and builds no internal node at this level; it builds one
\* only when start < left_len and end > left_len; and slicing a rope whose
\* leaves are all non-empty never produces an empty leaf.
C11_SliceLeftOnly ==
    SliceInRange /\ out = Ok =>
        /\ op.src.kind = "Concat" =>
               /\ op.end <= op.src.left_len =>
                      rope = Node_slice(op.src.left, op.start, op.end)
               /\ rope = StraddleResult(op.src, op.start, op.end) =>
                      op.start < op.src.left_len /\ op.end > op.src.left_len
        /\ AllLeavesNonEmpty(op.src) => AllLeavesNonEmpty(rope)

(* ------------------------------ C12 ------------------------------------ *)

\* the data vectors of the leaves of n, left to right
RECURSIVE LeafSeq(_)
LeafSeq(n) ==
    IF n.kind = "Flat" THEN <<n.data>> ELSE LeafSeq(n.left) \o LeafSeq(n.right)

\* the concatenation of the leaves' data in left-to-right order
RECURSIVE LeavesData(_)
LeavesData(n) ==
    IF n.kind = "Flat" THEN n.data ELSE LeavesData(n.left) \o LeavesData(n.right)

\* the data under the right children of the stacked nodes, top of the
\* stack first
RECURSIVE RightsOf(_)
RightsOf(st) ==
    IF st = <<>>
      THEN <<>>
      ELSE LeavesData(st[Len(st)].right) \o RightsOf(SubSeq(st, 1, Len(st) - 1))

\* the nodes of the tree rooted at n
RECURSIVE NodesOf(_)
NodesOf(n) ==
    IF n.kind = "Flat" THEN {n} ELSE {n} \cup NodesOf(n.left) \cup NodesOf(n.right)

\* how many elements lie at or after the right child of the i-th stacked
\* node: everything before them is the node's left subtree or left of it
NotBefore(st, i) == Len(RightsOf(SubSeq(st, 1, i)))

\* what the iterator has handed back is a prefix of the leaves' data, None
\* is handed back exactly when all of it has been, and again on every
\* later call
YieldsInOrder ==
    /\ \E k \in 0..Len(LeavesData(rope)) : yielded = SubSeq(LeavesData(rope), 1, k)
    /\ op.name = "next" =>
           IF out = Item(None)
             THEN exhausted > 0
             ELSE out = Item(Some(LeavesData(rope)[Len(yielded)]))
    /\ exhausted > 0 =>
           /\ yielded = LeavesData(rope)
           /\ op.name = "next" /\ out = Item(None)

\* C12 (as stated): the iterator yields exactly the concatenation of the
\* leaves' data in left-to-right order, whatever the shape of the rope and
\* wherever its empty leaves are, then reports exhaustion and keeps
\* reporting it; the stack holds only internal nodes of the rope, which is
\* as it was, whose left subtree has already been fully visited.
C12_StackLeftFullyVisited ==
    pc = "iterating" =>
        /\ YieldsInOrder
        /\ \A i \in 1..Len(values.stack) :
               /\ values.stack[i].kind = "Concat"
               /\ values.stack[i] \in NodesOf(rope)
               /\ Len(yielded) >= Len(LeavesData(rope)) - NotBefore(values.stack, i)

\* C12 (amended): the iterator yields exactly the concatenation of the
\* leaves' data in left-to-right order, whatever the shape of the rope and
\* wherever its empty leaves are, then reports exhaustion and keeps
\* reporting it; the stack holds only internal nodes of the rope, which is
\* as it was, whose left subtree has been entered and whose right subtree has not: what has been yielded,
\* the rest of the current leaf and the right subtrees of the stacked
\* nodes, top first, make up the whole sequence.
C12_IterInOrder ==
    pc = "iterating" =>
        /\ YieldsInOrder
        /\ \A i \in 1..Len(values.stack) :
               /\ values.stack[i].kind = "Concat"
               /\ values.stack[i] \in NodesOf(rope)
        /\ yielded \o values.flat_iter \o RightsOf(values.stack) = LeavesData(rope)

\* an iterator asked again after it reported exhaustion, over a rope of
\* depth 2 with an empty leaf between two non-empty ones
C12_Witness ==
    /\ pc = "iterating"
    /\ exhausted = MaxExhausted
    /\ Node_depth(rope) = 2
    /\ LET ls == LeafSeq(rope)
       IN  /\ ls[1] # <<>>
           /\ ls[Len(ls)] # <<>>
           /\ \E i \in 2..(Len(ls) - 1) : ls[i] = <<>>
    /\ yielded = LeavesData(rope)

====
